---- MODULE Spec2Model ----
(***************************************************************************)
(* A model of gdns (src/gdns.go): the 512-byte packet buffer with its      *)
(* cursor, the primitive reads, the name decoder with compression          *)
(* pointers, and the header, question and resource-record decoders as      *)
(* main() drives them.                                                     *)
(*                                                                         *)
(* Three specifications share the variables:                               *)
(*   SpecBuf    the primitive operations of BytePacketBuffer, one action   *)
(*              per method;                                                *)
(*   SpecQname  Read_qname, one action per iteration of its loop;          *)
(*   Spec       main(): load, header, questions, answers, one action per   *)
(*              decoder call.                                              *)
(* A Go runtime panic (index out of range) is the outcome "panic": the     *)
(* program stops there.                                                    *)
(***************************************************************************)
EXTENDS Integers, Sequences, FiniteSets, TLC

VARIABLES
    buf,        \* BytePacketBuffer.buf: [0..511 -> 0..255]
    pos,        \* BytePacketBuffer.pos
    last,       \* SpecBuf: the last primitive call and what it returned
    qn,         \* SpecQname: the locals of the running Read_qname call
    hist,       \* SpecQname: history of the call (start, first pointer, count)
    pc,         \* Spec: where main() is
    msg,        \* Spec: what the loaded message holds (history)
    header,     \* Spec: the DnsHeader main() fills
    qi,         \* Spec: main's loop counter i
    question,   \* Spec: the DnsQuestion last returned
    record      \* Spec: the DnsRecord last returned, with the cursor before it

vars == <<buf, pos, last, qn, hist, pc, msg, header, qi, question, record>>

----------------------------------------------------------------------------
(* Program constants *)

BufSize == 512
maxJumps == 5

QTYPE_A == 1
QTYPE_NS == 2
QTYPE_CNAME == 5
QTYPE_MX == 15
QTYPE_AAAA == 28

Byte == 0..255
Dot == 46   \* "."

----------------------------------------------------------------------------
(* Unsigned integer arithmetic as Go computes it *)

RECURSIVE BitAnd(_, _)
BitAnd(a, b) ==
    IF a = 0 \/ b = 0 THEN 0
    ELSE (IF a % 2 = 1 /\ b % 2 = 1 THEN 1 ELSE 0) + 2 * BitAnd(a \div 2, b \div 2)

RECURSIVE BitOr(_, _)
BitOr(a, b) ==
    IF a = 0 THEN b
    ELSE IF b = 0 THEN a
    ELSE (IF a % 2 = 1 \/ b % 2 = 1 THEN 1 ELSE 0) + 2 * BitOr(a \div 2, b \div 2)

RECURSIVE BitXor(_, _)
BitXor(a, b) ==
    IF a = 0 THEN b
    ELSE IF b = 0 THEN a
    ELSE (IF a % 2 # b % 2 THEN 1 ELSE 0) + 2 * BitXor(a \div 2, b \div 2)

RECURSIVE Pow2(_)
Pow2(n) == IF n = 0 THEN 1 ELSE 2 * Pow2(n - 1)

Shr(x, n) == x \div Pow2(n)
Shl16(x, n) == (x * Pow2(n)) % 65536

\* A uint32 is held as its two 16-bit halves <<high, low>>: TLC's integers
\* are 32-bit signed.  b1<<24 | b2<<16 | b3<<8 | b4, gdns.go:109.
U32(b1, b2, b3, b4) == <<BitOr(Shl16(b1, 8), b2), BitOr(Shl16(b3, 8), b4)>>

----------------------------------------------------------------------------
(* BytePacketBuffer: the primitive operations.  Each returns                *)
(* [st, val, pos]: st is "ok", "err" (a returned error) or "panic" (an      *)
(* index outside the array), val the value, pos the cursor afterwards.      *)

Res(st, val, p) == [st |-> st, val |-> val, pos |-> p]

\* gdns.go:40-47
Read(b, p) ==
    IF p >= BufSize THEN Res("err", 0, p)
    ELSE Res("ok", b[p], p + 1)

\* The bound check of Get, gdns.go:51: on the cursor, not on the index.
GetAtEnd(p, at) == p >= BufSize

\* gdns.go:50-56
Get(b, p, at) ==
    IF GetAtEnd(p, at) THEN Res("err", 0, p)
    ELSE IF at \notin 0..(BufSize - 1) THEN Res("panic", 0, p)
    ELSE Res("ok", b[at], p)

\* The bound check of GetRange, gdns.go:60.
RangeAtEnd(start, len) == start + len >= BufSize

\* gdns.go:59-64
GetRange(b, p, start, len) ==
    IF RangeAtEnd(start, len) THEN Res("err", <<>>, p)
    ELSE Res("ok", [i \in 1..len |-> b[start + i - 1]], p)

\* gdns.go:67-77 (and 79-89, ReadU16_Query: the same reads, typed QueryType)
ReadU16(b, p) ==
    LET high == Read(b, p) IN
    IF high.st # "ok" THEN Res("err", 0, high.pos)
    ELSE LET low == Read(b, high.pos) IN
         IF low.st # "ok" THEN Res("err", 0, low.pos)
         ELSE Res("ok", BitOr(Shl16(high.val, 8), low.val), low.pos)

ReadU16_Query(b, p) == ReadU16(b, p)

\* gdns.go:92-110
ReadU32(b, p) ==
    LET b1 == Read(b, p) IN
    IF b1.st # "ok" THEN Res("err", <<0, 0>>, b1.pos)
    ELSE LET b2 == Read(b, b1.pos) IN
    IF b2.st # "ok" THEN Res("err", <<0, 0>>, b2.pos)
    ELSE LET b3 == Read(b, b2.pos) IN
    IF b3.st # "ok" THEN Res("err", <<0, 0>>, b3.pos)
    ELSE LET b4 == Read(b, b3.pos) IN
    IF b4.st # "ok" THEN Res("err", <<0, 0>>, b4.pos)
    ELSE Res("ok", U32(b1.val, b2.val, b3.val, b4.val), b4.pos)

----------------------------------------------------------------------------
(* SpecBuf: the primitive operations, called in any order on a loaded      *)
(* buffer.  `last` records the call: its name, the cursor before it, its   *)
(* arguments, its outcome and the value it returned (a sequence).          *)

NumPatterns == 2     \* buffer contents tried
MaxRangeLen == 2     \* longest GetRange asked for
MaxOver == 2         \* how far past the end Seek and Step are driven

\* A loaded buffer: main() copies arbitrary bytes in (gdns.go:439-440).
PatternBuf(k) == [i \in 0..(BufSize - 1) |-> (i * (2 * k + 1) + 7 * k) % 256]

\* Cursor values the callers are driven to: both ends and the last bytes.
EdgePositions == {0, 1, 255} \cup ((BufSize - 5)..(BufSize + MaxOver))

NoCall == [op |-> "none", pre |-> 0, at |-> 0, len |-> 0, st |-> "ok", val |-> <<>>]
Call(op, pre, at, len, r) ==
    [op |-> op, pre |-> pre, at |-> at, len |-> len, st |-> r.st,
     val |-> IF op = "GetRange" THEN r.val ELSE <<r.val>>]

NoFrame == [pos |-> 0, delim |-> <<>>, jumped |-> FALSE, jumpsPerformed |-> 0,
            outstr |-> <<>>, st |-> "idle"]
NoHist == [start |-> 0, firstPtr |-> -1, nptr |-> 0, target |-> -1, iters |-> 0]
NoHeader == [ID |-> 0, RecursionDesired |-> FALSE, TruncatedMessage |-> FALSE,
             AuthoritativeAnswer |-> FALSE, Opcode |-> 0, Response |-> FALSE,
             ResCode |-> 0, CheckingDisabled |-> FALSE, AuthedData |-> FALSE,
             Z |-> FALSE, RecursionAvailable |-> FALSE, Questions |-> 0,
             Answers |-> 0, AuthoritativeEntries |-> 0, ResourceEntries |-> 0]
\* The zero values of DnsQuestion and DnsRecord (var question, var rec).
ZeroQuestion == [Name |-> <<>>, Qtype |-> 0, Qclass |-> 0]
ZeroRecord == [Name |-> <<>>, Qtype |-> 0, Class |-> 0, TTL |-> <<0, 0>>,
               DataLen |-> 0, Addr |-> <<>>, Host |-> <<>>, Priority |-> 0]
NoMsg == [len |-> 0, declared |-> 0, encoded |-> 0]
NoQuestion == [st |-> "none", val |-> ZeroQuestion, n |-> 0]
NoRecord == [st |-> "none", val |-> ZeroRecord, prefix |-> FALSE, rdata |-> 0,
             rawType |-> 0]

OnlyBuf == <<qn, hist, pc, msg, header, qi, question, record>>

InitBuf ==
    /\ buf \in {PatternBuf(k) : k \in 1..NumPatterns}
    /\ pos = 0
    /\ last = NoCall
    /\ qn = NoFrame /\ hist = NoHist
    /\ pc = "idle" /\ msg = NoMsg /\ header = NoHeader /\ qi = 0
    /\ question = NoQuestion /\ record = NoRecord

Running == last.st # "panic"

\* gdns.go:28-31
DoStep ==
    /\ Running
    /\ \E steps \in 1..2 :
        /\ pos + steps <= BufSize + MaxOver
        /\ pos' = pos + steps
        /\ last' = Call("Step", pos, steps, 0, Res("ok", 0, pos + steps))
    /\ UNCHANGED <<buf, OnlyBuf>>

\* gdns.go:34-37
DoSeek ==
    /\ Running
    /\ \E p \in EdgePositions :
        /\ pos' = p
        /\ last' = Call("Seek", pos, p, 0, Res("ok", 0, p))
    /\ UNCHANGED <<buf, OnlyBuf>>

DoRead ==
    /\ Running
    /\ LET r == Read(buf, pos) IN
        /\ pos' = r.pos
        /\ last' = Call("Read", pos, 0, 0, r)
    /\ UNCHANGED <<buf, OnlyBuf>>

DoGet ==
    /\ Running
    /\ \E at \in {pos, BufSize - 1, BufSize} :
        LET r == Get(buf, pos, at) IN
        /\ pos' = r.pos
        /\ last' = Call("Get", pos, at, 0, r)
    /\ UNCHANGED <<buf, OnlyBuf>>

DoGetRange ==
    /\ Running
    /\ \E start \in {pos, BufSize - 1}, len \in 0..MaxRangeLen :
        LET r == GetRange(buf, pos, start, len) IN
        /\ pos' = r.pos
        /\ last' = Call("GetRange", pos, start, len, r)
    /\ UNCHANGED <<buf, OnlyBuf>>

DoReadU16 ==
    /\ Running
    /\ LET r == ReadU16(buf, pos) IN
        /\ pos' = r.pos
        /\ last' = Call("ReadU16", pos, 0, 0, r)
    /\ UNCHANGED <<buf, OnlyBuf>>

DoReadU16_Query ==
    /\ Running
    /\ LET r == ReadU16_Query(buf, pos) IN
        /\ pos' = r.pos
        /\ last' = Call("ReadU16_Query", pos, 0, 0, r)
    /\ UNCHANGED <<buf, OnlyBuf>>

DoReadU32 ==
    /\ Running
    /\ LET r == ReadU32(buf, pos) IN
        /\ pos' = r.pos
        /\ last' = Call("ReadU32", pos, 0, 0, r)
    /\ UNCHANGED <<buf, OnlyBuf>>

NextBuf ==
    \/ DoStep
    \/ DoSeek
    \/ DoRead
    \/ DoGet
    \/ DoGetRange
    \/ DoReadU16
    \/ DoReadU16_Query
    \/ DoReadU32

SpecBuf == InitBuf /\ [][NextBuf]_vars

----------------------------------------------------------------------------
(* Read_qname, gdns.go:114-167.  A frame holds its locals:                  *)
(*   pos, delim, jumped, jumpsPerformed, outstr (the text appended so far), *)
(*   st: "loop" while the for loop runs, then "ok" (return nil), "err"      *)
(*   (the end-of-buffer error of Get or GetRange), "limit" (the jump-limit  *)
(*   error) or "panic".                                                     *)

\* gdns.go:115-119
NewFrame(p) == [pos |-> p, delim |-> <<>>, jumped |-> FALSE, jumpsPerformed |-> 0,
                outstr |-> <<>>, st |-> "loop"]

\* The limit taken one jump early (>= for >).
JumpLimitAtFive(jumpsPerformed) == jumpsPerformed >= maxJumps

\* gdns.go:122
JumpLimitExceeded(jumpsPerformed) == jumpsPerformed > maxJumps

\* gdns.go:130
IsPointer(len) == BitAnd(len, 192) = 192

\* The cursor moved at every pointer (the `if !jumped` guard dropped).
SeekOnEveryPointer(jumped, bpos, p) == p + 2

\* gdns.go:131-133: the cursor after a pointer at local position p
SeekOnPointer(jumped, bpos, p) == IF ~jumped THEN p + 2 ELSE bpos

\* gdns.go:140
PointerTarget(len, offset) == BitOr(Shl16(BitXor(len, 192), 8), offset)

\* gdns.go:142
IncJumps(jumpsPerformed) == jumpsPerformed + 1

\* gdns.go:162-164: the cursor on return
SeekOnReturn(jumped, bpos, p) == IF ~jumped THEN p ELSE bpos

\* One iteration of the loop, gdns.go:121-160 (with 162-166 when it breaks):
\* the cursor and the frame afterwards.
QnameIter(b, bpos, f) ==
    IF JumpLimitExceeded(f.jumpsPerformed)
    THEN [bpos |-> bpos, f |-> [f EXCEPT !.st = "limit"]]
    ELSE
    LET len == Get(b, bpos, f.pos) IN
    IF len.st # "ok"
    THEN [bpos |-> bpos, f |-> [f EXCEPT !.st = len.st]]
    ELSE IF IsPointer(len.val)
    THEN LET bpos2 == SeekOnPointer(f.jumped, bpos, f.pos)
             offset == Get(b, bpos2, f.pos + 1)
         IN  IF offset.st # "ok"
             THEN [bpos |-> bpos2, f |-> [f EXCEPT !.st = offset.st]]
             ELSE [bpos |-> bpos2,
                   f |-> [f EXCEPT !.pos = PointerTarget(len.val, offset.val),
                                   !.jumped = TRUE,
                                   !.jumpsPerformed = IncJumps(@)]]
    ELSE IF len.val = 0
    THEN [bpos |-> SeekOnReturn(f.jumped, bpos, f.pos + 1),
          f |-> [f EXCEPT !.pos = @ + 1, !.st = "ok"]]
    ELSE LET rangeBytes == GetRange(b, bpos, f.pos + 1, len.val) IN
         IF rangeBytes.st # "ok"
         THEN [bpos |-> bpos,
               f |-> [f EXCEPT !.pos = @ + 1, !.outstr = @ \o f.delim, !.st = "err"]]
         ELSE [bpos |-> bpos,
               f |-> [f EXCEPT !.pos = @ + 1 + len.val,
                               !.outstr = @ \o f.delim \o rangeBytes.val,
                               !.delim = <<Dot>>]]

\* The whole call: the loop run to its end.
RECURSIVE QnameLoop(_, _, _)
QnameLoop(b, bpos, f) ==
    IF f.st # "loop" THEN [bpos |-> bpos, f |-> f]
    ELSE LET n == QnameIter(b, bpos, f) IN QnameLoop(b, n.bpos, n.f)

\* Read_qname(&s) with s empty, called with the cursor at p:
\* [st, val (the text), pos (the cursor afterwards)].
Read_qname(b, p) ==
    LET n == QnameLoop(b, p, NewFrame(p)) IN Res(n.f.st, n.f.outstr, n.bpos)

----------------------------------------------------------------------------
(* The buffers Read_qname is run on: a run of name items laid out from a   *)
(* base offset in a zeroed buffer.  Items: a one-byte label "La", the zero  *)
(* octet "Z", and pointers: "Pn" to the item after it, "Ps" to itself,      *)
(* "Pb" to the base, "P0" to offset 0, "Px" to offset 16383.  A layout is   *)
(* labels, a chain of "Pn", labels, and one closing item.                   *)

MaxHead == 1     \* labels before the pointer chain
MaxChain == 7    \* pointers in the chain
MaxMid == 2      \* labels after the chain
MaxBack == 14    \* bases this close to the end of the buffer
MaxSkew == 1     \* the decode starts up to this far after the base

Closers == {"Z", "Ps", "Pb", "P0", "Px", "La"}

Ptr(t) == <<192 + (t \div 256), t % 256>>

ItemBytes(kind, a, base) ==
    CASE kind = "Z" -> <<0>>
      [] kind = "La" -> <<1, 97>>
      [] kind = "Pn" -> Ptr(a + 2)
      [] kind = "Ps" -> Ptr(a)
      [] kind = "Pb" -> Ptr(base)
      [] kind = "P0" -> Ptr(0)
      [] kind = "Px" -> <<255, 255>>

RECURSIVE LayoutBytes(_, _, _)
LayoutBytes(items, a, base) ==
    IF items = <<>> THEN <<>>
    ELSE LET bs == ItemBytes(Head(items), a, base)
         IN  bs \o LayoutBytes(Tail(items), a + Len(bs), base)

Rep(kind, n) == [i \in 1..n |-> kind]

Layouts ==
    { Rep("La", h) \o Rep("Pn", k) \o Rep("La", m) \o <<c>> :
        h \in 0..MaxHead, k \in 0..MaxChain, m \in 0..MaxMid, c \in Closers }

\* copy(buffer.buf[:], data) into the zeroed array, gdns.go:17 and 440,
\* for data that is `base` zero bytes and then `bytes`.
Load(base, bytes) ==
    [i \in 0..(BufSize - 1) |->
        IF i >= base /\ i - base < Len(bytes) THEN bytes[i - base + 1] ELSE 0]

Bases == {0, 12} \cup {BufSize - d : d \in 1..MaxBack}

OnlyQname == <<last, pc, msg, header, qi, question, record>>

InitQname ==
    /\ \E base \in Bases, items \in Layouts, skew \in 0..MaxSkew :
        /\ buf = Load(base, LayoutBytes(items, base, base))
        /\ pos = base + skew
        /\ base + skew < BufSize
    /\ qn = NoFrame /\ hist = NoHist
    /\ last = NoCall
    /\ pc = "idle" /\ msg = NoMsg /\ header = NoHeader /\ qi = 0
    /\ question = NoQuestion /\ record = NoRecord

\* The call, gdns.go:114-119.
QnameCall ==
    /\ qn.st = "idle"
    /\ qn' = NewFrame(pos)
    /\ hist' = [NoHist EXCEPT !.start = pos]
    /\ UNCHANGED <<buf, pos, OnlyQname>>

\* One iteration of the loop.  hist counts the iterations and the pointers
\* followed and keeps where the first pointer stood and where the last
\* pointer followed led.
QnameStep ==
    /\ qn.st = "loop"
    /\ LET n == QnameIter(buf, pos, qn)
           atPtr == /\ ~JumpLimitExceeded(qn.jumpsPerformed)
                    /\ qn.pos \in 0..(BufSize - 1)
                    /\ pos < BufSize
                    /\ buf[qn.pos] >= 192
       IN  /\ qn' = n.f
           /\ pos' = n.bpos
           /\ hist' = [hist EXCEPT
                  !.iters = @ + 1,
                  !.firstPtr = IF @ = -1 /\ atPtr THEN qn.pos ELSE @,
                  !.nptr = IF atPtr /\ n.f.st = "loop" THEN @ + 1 ELSE @,
                  !.target = IF atPtr /\ n.f.st = "loop"
                             THEN (buf[qn.pos] - 192) * 256 + buf[qn.pos + 1]
                             ELSE @]
    /\ UNCHANGED <<buf, OnlyQname>>

NextQname ==
    \/ QnameCall
    \/ QnameStep

SpecQname == InitQname /\ [][NextQname]_vars

----------------------------------------------------------------------------
(* The decoders: header, question, resource record.  Each returns          *)
(* [st, val, pos] like the primitives; st is the outcome of the first      *)
(* failing read.                                                           *)

\* gdns.go:202-217
ResultCodeFromNum(num) == IF num \in 1..5 THEN num ELSE 0

\* (flags >> k & 1) > 0
FlagBit(flags, k) == BitAnd(Shr(flags, k), 1) > 0

\* gdns.go:272-282
DecodeFlags(h, flags) ==
    [h EXCEPT !.RecursionDesired = FlagBit(flags, 8),
              !.TruncatedMessage = FlagBit(flags, 9),
              !.AuthoritativeAnswer = FlagBit(flags, 10),
              !.Opcode = BitAnd(Shr(flags, 11), 15) % 256,
              !.Response = FlagBit(flags, 15),
              !.ResCode = ResultCodeFromNum(BitAnd(flags, 15) % 256),
              !.CheckingDisabled = FlagBit(flags, 12),
              !.AuthedData = FlagBit(flags, 13),
              !.Z = FlagBit(flags, 14),
              !.RecursionAvailable = FlagBit(flags, 7)]

\* gdns.go:239-257
NewDnsHeader == NoHeader

\* One read of a decoder, by the method it calls.
ReadOne(kind, b, p) ==
    CASE kind = "qname" -> Read_qname(b, p)
      [] kind = "u32" -> ReadU32(b, p)
      [] kind = "u16q" -> ReadU16_Query(b, p)
      [] OTHER -> ReadU16(b, p)

\* The assignment of what was read: `x.f, err = buffer.ReadU16()` stores the
\* value whatever err is; the flag word is a local, decoded after its err
\* check (gdns.go:267-282).
Assign(val, step, r) ==
    IF step.kind = "flags"
    THEN IF r.st = "ok" THEN DecodeFlags(val, r.val) ELSE val
    ELSE [val EXCEPT ![step.field] = r.val]

\* A decoder's reads in order, each followed by `if err != nil { return err }`.
RECURSIVE ReadFields(_, _, _, _)
ReadFieldsNext(b, val, steps, r) ==
    IF r.st # "ok" THEN Res(r.st, Assign(val, Head(steps), r), r.pos)
    ELSE ReadFields(b, r.pos, Assign(val, Head(steps), r), Tail(steps))

ReadFields(b, p, val, steps) ==
    IF steps = <<>> THEN Res("ok", val, p)
    ELSE ReadFieldsNext(b, val, steps, ReadOne(Head(steps).kind, b, p))

Field(f, kind) == [field |-> f, kind |-> kind]

\* DnsHeader.Read, gdns.go:260-305, on a new header
HeaderRead(b, p) ==
    ReadFields(b, p, NewDnsHeader,
               <<Field("ID", "u16"), Field("flags", "flags"),
                 Field("Questions", "u16"), Field("Answers", "u16"),
                 Field("AuthoritativeEntries", "u16"),
                 Field("ResourceEntries", "u16")>>)

\* DnsQuestion.Read, gdns.go:315-332, on a zero DnsQuestion
QuestionRead(b, p) ==
    ReadFields(b, p, ZeroQuestion,
               <<Field("Name", "qname"), Field("Qtype", "u16"),
                 Field("Qclass", "u16")>>)

\* The loops of gdns.go:390-396 and 401-407: n calls of Read.
RECURSIVE ReadBytes(_, _, _)
ReadBytes(b, p, n) ==
    IF n = 0 THEN Res("ok", <<>>, p)
    ELSE LET r == Read(b, p) IN
         IF r.st # "ok" THEN Res(r.st, <<>>, r.pos)
         ELSE LET rest == ReadBytes(b, r.pos, n - 1) IN
              Res(rest.st, <<r.val>> \o rest.val, rest.pos)

\* net.IPv4: the 16-byte form of an IPv4 address.
IPv4(a, b, c, d) == <<0, 0, 0, 0, 0, 0, 0, 0, 0, 0, 255, 255, a, b, c, d>>

\* gdns.go:389-397: the address of an A record from its four bytes
PayloadA(b, rec, addr) ==
    IF addr.st # "ok" THEN Res(addr.st, rec, addr.pos)
    ELSE Res("ok", [rec EXCEPT !.Addr = IPv4(addr.val[1], addr.val[2],
                                             addr.val[3], addr.val[4])],
             addr.pos)

\* gdns.go:399-408: the address of an AAAA record from its sixteen bytes
PayloadAAAA(b, rec, addr) ==
    IF addr.st # "ok" THEN Res(addr.st, rec, addr.pos)
    ELSE Res("ok", [rec EXCEPT !.Addr = addr.val], addr.pos)

\* NS decoded like CNAME (a case added for the host name of an NS record).
PayloadKindNsAsName(qtype) ==
    CASE qtype = QTYPE_A -> "A"
      [] qtype = QTYPE_AAAA -> "AAAA"
      [] qtype = QTYPE_CNAME \/ qtype = QTYPE_NS -> "CNAME"
      [] qtype = QTYPE_MX -> "MX"
      [] OTHER -> "none"

\* The switch of gdns.go:387-425: which payload a record type has.
PayloadKind(qtype) ==
    CASE qtype = QTYPE_A -> "A"
      [] qtype = QTYPE_AAAA -> "AAAA"
      [] qtype = QTYPE_CNAME -> "CNAME"
      [] qtype = QTYPE_MX -> "MX"
      [] OTHER -> "none"

\* The payload, gdns.go:387-425, of a record whose prefix is read.
RecordPayload(b, p, rec) ==
    CASE PayloadKind(rec.Qtype) = "A" -> PayloadA(b, rec, ReadBytes(b, p, 4))
      [] PayloadKind(rec.Qtype) = "AAAA" -> PayloadAAAA(b, rec, ReadBytes(b, p, 16))
      [] PayloadKind(rec.Qtype) = "CNAME" ->
            ReadFields(b, p, rec, <<Field("Host", "qname")>>)
      [] PayloadKind(rec.Qtype) = "MX" ->
            ReadFields(b, p, rec, <<Field("Priority", "u16"), Field("Host", "qname")>>)
      [] OTHER -> Res("ok", rec, p)

\* The record once its prefix is read, gdns.go:386-427.
RecordAfterPrefix(b, prefix) ==
    IF prefix.st # "ok" THEN prefix
    ELSE RecordPayload(b, prefix.pos, prefix.val)

\* DnsRecordRead, gdns.go:359-428
DnsRecordRead(b, p) ==
    RecordAfterPrefix(b,
        ReadFields(b, p, ZeroRecord,
                   <<Field("Name", "qname"), Field("Qtype", "u16q"),
                     Field("Class", "u16"), Field("TTL", "u32"),
                     Field("DataLen", "u16")>>))

----------------------------------------------------------------------------
(* Spec: main(), gdns.go:430-472, on the messages of Messages.              *)

MaxQuestions == 2    \* questions a header declares
MaxAnswers == 2      \* records in the answer section

U16Bytes(n) == <<n \div 256, n % 256>>

FlagWords == {Pow2(k) : k \in 0..15} \cup {0, 33152, 65535}   \* 33152 = 0x8180

RecTypes == {QTYPE_A, QTYPE_NS, QTYPE_CNAME, QTYPE_MX, QTYPE_AAAA, 16, 65535}

HeaderBytes(flags, qd, an) ==
    U16Bytes(4660) \o U16Bytes(flags) \o U16Bytes(qd) \o U16Bytes(an)
        \o U16Bytes(0) \o U16Bytes(0)

\* The question "a.b", type A, class IN.
QuestionBytes == <<1, 97, 1, 98, 0>> \o U16Bytes(1) \o U16Bytes(1)

\* The rdata a server sends for a record type; a name is "c" and a pointer
\* to offset 12, where the first question's name stands.
Rdata(t) ==
    CASE t = QTYPE_A -> <<127, 0, 0, 1>>
      [] t = QTYPE_AAAA -> [i \in 1..16 |-> 32 + i]
      [] t = QTYPE_CNAME -> <<1, 99>> \o Ptr(12)
      [] t = QTYPE_MX -> U16Bytes(10) \o <<1, 99>> \o Ptr(12)
      [] t = QTYPE_NS -> <<1, 99>> \o Ptr(12)
      [] t = 16 -> <<2, 104, 105>>
      [] OTHER -> <<>>

RecordBytes(t) ==
    Ptr(12) \o U16Bytes(t) \o U16Bytes(1) \o U16Bytes(0) \o U16Bytes(300)
        \o U16Bytes(Len(Rdata(t))) \o Rdata(t)

RECURSIVE Concat(_)
Concat(ss) == IF ss = <<>> THEN <<>> ELSE Head(ss) \o Concat(Tail(ss))

AnswerLists == UNION {[1..n -> RecTypes] : n \in 0..MaxAnswers}

\* A message: [bytes, declared (questions the header declares), encoded
\* (questions that follow the header)].
Message(flags, qd, enc, answers) ==
    [bytes |-> HeaderBytes(flags, qd, Len(answers))
                 \o Concat([i \in 1..enc |-> QuestionBytes])
                 \o Concat([i \in 1..Len(answers) |-> RecordBytes(answers[i])]),
     declared |-> qd, encoded |-> enc]

Messages ==
    {Message(f, 1, 1, <<QTYPE_A>>) : f \in FlagWords}
    \cup {Message(33152, qd, enc, answers) :
            qd \in 0..MaxQuestions, enc \in 0..MaxQuestions, answers \in AnswerLists}

OnlyMain == <<last, qn, hist>>

\* gdns.go:432-443: the buffer is zeroed, the message copied in, the cursor 0.
Init ==
    /\ \E m \in Messages :
        /\ m.encoded <= m.declared
        /\ buf = Load(0, m.bytes)
        /\ msg = [len |-> Len(m.bytes), declared |-> m.declared, encoded |-> m.encoded]
    /\ pos = 0
    /\ pc = "header"
    /\ header = NewDnsHeader
    /\ qi = 0
    /\ question = NoQuestion /\ record = NoRecord
    /\ last = NoCall /\ qn = NoFrame /\ hist = NoHist

Exit(st) == IF st = "panic" THEN "panic" ELSE "exit1"

\* gdns.go:443-450
MainHeader ==
    /\ pc = "header"
    /\ LET r == HeaderRead(buf, pos) IN
        /\ header' = r.val
        /\ pos' = r.pos
        /\ pc' = IF r.st = "ok" THEN "questions" ELSE Exit(r.st)
    /\ UNCHANGED <<buf, msg, qi, question, record, OnlyMain>>

\* One pass of the loop of gdns.go:453-461.
MainQuestion ==
    /\ pc = "questions"
    /\ qi < header.Questions
    /\ LET r == QuestionRead(buf, pos) IN
        /\ question' = [st |-> r.st, val |-> r.val, n |-> qi + 1]
        /\ pos' = r.pos
        /\ pc' = IF r.st = "ok" THEN "questions" ELSE Exit(r.st)
        /\ qi' = IF r.st = "ok" THEN qi + 1 ELSE qi
    /\ UNCHANGED <<buf, msg, header, record, OnlyMain>>

\* The loop of gdns.go:453 ends; that of 464 starts.
MainQuestionsDone ==
    /\ pc = "questions"
    /\ qi >= header.Questions
    /\ pc' = "answers"
    /\ qi' = 0
    /\ UNCHANGED <<buf, pos, msg, header, question, record, OnlyMain>>

\* One pass of the loop of gdns.go:464-471.  record keeps, beside what
\* DnsRecordRead returned, whether the record's prefix (name, type, class,
\* TTL, data length) lies in the buffer, where its rdata starts and the raw
\* type on the wire.
MainRecord ==
    /\ pc = "answers"
    /\ qi < header.Answers
    /\ LET r == DnsRecordRead(buf, pos)
           name == Read_qname(buf, pos)
           prefix == name.st = "ok" /\ name.pos + 10 <= BufSize
       IN
        /\ record' = [st |-> r.st, val |-> r.val, prefix |-> prefix,
                      rdata |-> IF prefix THEN name.pos + 10 ELSE 0,
                      rawType |-> IF prefix
                                  THEN buf[name.pos] * 256 + buf[name.pos + 1]
                                  ELSE 0]
        /\ pos' = r.pos
        /\ pc' = IF r.st = "ok" THEN "answers" ELSE Exit(r.st)
        /\ qi' = IF r.st = "ok" THEN qi + 1 ELSE qi
    /\ UNCHANGED <<buf, msg, header, question, OnlyMain>>

\* The loop of gdns.go:464 ends and main returns.
MainDone ==
    /\ pc = "answers"
    /\ qi >= header.Answers
    /\ pc' = "exit0"
    /\ UNCHANGED <<buf, pos, msg, header, qi, question, record, OnlyMain>>

Next ==
    \/ MainHeader
    \/ MainQuestion
    \/ MainQuestionsDone
    \/ MainRecord
    \/ MainDone

Spec == Init /\ [][Next]_vars

----------------------------------------------------------------------------
(* Properties of the primitive reads (SpecBuf)                              *)

ReadWidth(op) ==
    CASE op = "Read" -> 1
      [] op = "ReadU16" -> 2
      [] op = "ReadU16_Query" -> 2
      [] op = "ReadU32" -> 4

\* C2: no partial reads: Read, ReadU16, ReadU16_Query and ReadU32 either
\* succeed, the cursor advanced by 1, 2, 2 and 4, or fail with the cursor
\* where it stood before the call.
C2_NoPartialReads ==
    last.op \in {"Read", "ReadU16", "ReadU16_Query", "ReadU32"} =>
        \/ last.st = "ok" /\ pos = last.pre + ReadWidth(last.op)
        \/ last.st = "err" /\ pos = last.pre

\* A multi-byte read has failed after its first byte was in range.
C2_ReadFailedMidway ==
    /\ last.op \in {"ReadU16", "ReadU16_Query", "ReadU32"}
    /\ last.st = "err"
    /\ last.pre < BufSize

\* C3: at every position p in 0..511, Read leaves the cursor at p+1,
\* Get(p) with the cursor at p and GetRange(p, 1) succeed, and all three
\* return the byte buf[p].
C3_ReadPeekAgree ==
    /\ (last.op = "Read" /\ last.pre \in 0..(BufSize - 1)) =>
            last.st = "ok" /\ pos = last.pre + 1 /\ last.val = <<buf[last.pre]>>
    /\ (last.op = "Get" /\ last.at = last.pre /\ last.pre \in 0..(BufSize - 1)) =>
            last.st = "ok" /\ pos = last.pre /\ last.val = <<buf[last.pre]>>
    /\ (last.op = "GetRange" /\ last.len = 1 /\ last.at \in 0..(BufSize - 1)) =>
            last.st = "ok" /\ last.val = <<buf[last.at]>>

\* GetRange(p, 1) has been called for the last byte of the buffer.
C3_RangeOfLastByte ==
    last.op = "GetRange" /\ last.len = 1 /\ last.at = BufSize - 1

----------------------------------------------------------------------------
(* Properties of Read_qname (SpecQname)                                     *)

Returned == qn.st \in {"ok", "err", "limit"}
Ended == qn.st \in {"ok", "err", "limit", "panic"}

\* C1: during a decode every byte access is at an index in 0..511 or the
\* operation returns an error: no access outside the array is attempted.
C1_NoOutOfRangeAccess == qn.st # "panic"

\* The index after the zero octet of the uncompressed name at i
\* (-1 when the labels run off the buffer).
RECURSIVE NameEnd(_, _)
NameEnd(b, i) ==
    IF i \notin 0..(BufSize - 1) THEN -1
    ELSE IF b[i] = 0 THEN i + 1
    ELSE NameEnd(b, i + 1 + b[i])

\* C4: after a successful decode the cursor is just after the terminating
\* zero when no pointer was met, and two after the first byte of the first
\* pointer when one was, however many pointers followed.
C4_CursorPlacement ==
    qn.st = "ok" =>
        IF hist.firstPtr = -1
        THEN pos = NameEnd(buf, hist.start)
        ELSE pos = hist.firstPtr + 2

\* A decode that followed three pointers, the first not at the start of
\* the name, has succeeded.
C4_LaterPointersFollowed ==
    qn.st = "ok" /\ hist.nptr >= 3 /\ hist.firstPtr > hist.start

\* C5: where a decode started at X succeeds with text T, a pointer to X at
\* any q <= 510 decodes successfully to T and leaves the cursor at q+2.
C5_PointerTransparency ==
    (Ended /\ hist.start <= BufSize - 2 /\ buf[hist.start] >= 192) =>
        LET X == (buf[hist.start] - 192) * 256 + buf[hist.start + 1]
            direct == Read_qname(buf, X)
        IN  (X < BufSize /\ direct.st = "ok") =>
                /\ qn.st = "ok"
                /\ qn.outstr = direct.val
                /\ pos = hist.start + 2

\* A decode that started at a pointer in the last two bytes has ended.
C5_PointerAtEnd ==
    Ended /\ hist.start = BufSize - 2 /\ buf[hist.start] >= 192

\* Labels without pointers from i on, up to a zero octet in the buffer.
RECURSIVE WellFormed(_, _)
WellFormed(b, i) ==
    IF i \notin 0..(BufSize - 1) THEN FALSE
    ELSE IF b[i] = 0 THEN TRUE
    ELSE IF b[i] >= 192 THEN FALSE
    ELSE WellFormed(b, i + 1 + b[i])

\* C6: a decode that follows exactly 5 pointers and then reaches well-formed
\* labels and the zero octet succeeds; one that follows a 6th pointer returns
\* the jump-limit error, never success; none follows a 7th.
C6_JumpLimit ==
    /\ hist.nptr <= 6
    /\ (Ended /\ hist.nptr = 5 /\ WellFormed(buf, hist.target)) => qn.st = "ok"
    /\ qn.st = "limit" => hist.nptr = 6
    /\ (hist.nptr = 6 /\ Ended) => qn.st = "limit"
    /\ qn.st = "ok" => hist.nptr <= 5

\* A decode that started at a pointer, followed exactly 5 pointers and then
\* read a label and the zero octet has succeeded.
C6_FiveJumpsSucceed ==
    qn.st = "ok" /\ hist.nptr = 5 /\ hist.firstPtr = hist.start /\ Len(qn.outstr) > 0

\* Iterations one call can take: between two jumps pos only grows.
IterBound == (maxJumps + 2) * BufSize

\* C10: the loop ends after a bounded number of iterations, returning the
\* name or returning an error.
C10_EndsByReturning ==
    /\ hist.iters <= IterBound
    /\ qn.st = "loop" => ENABLED QnameStep
    /\ qn.st \notin {"idle", "loop"} => Returned

\* The loop cannot run forever: each iteration that stays in the loop
\* lowers a non-negative measure, the jumps left and then the bytes left.
Rank(f) == (maxJumps + 1 - f.jumpsPerformed) * 16384 + (16384 - f.pos)

QnameRankDecreases ==
    [][(qn.st = "loop" /\ qn'.st = "loop") =>
            (Rank(qn') < Rank(qn) /\ Rank(qn') >= 0)]_vars

----------------------------------------------------------------------------
(* Properties of the decode pass (Spec)                                     *)

Bit(f, k) == (f \div Pow2(k)) % 2 = 1

\* The flag word of the loaded message, bytes 2 and 3.
WireFlags == buf[2] * 256 + buf[3]

\* C7: the header's flags are the bits of the flag word: Response bit 15,
\* Opcode bits 11..14, AuthoritativeAnswer 10, TruncatedMessage 9,
\* RecursionDesired 8, RecursionAvailable 7, Z 6, AuthedData 5,
\* CheckingDisabled 4, ResCode from bits 0..3 (6..15 give NOERROR).
C7_FlagLayout ==
    pc # "header" =>
        /\ header.Response = Bit(WireFlags, 15)
        /\ header.Opcode = (WireFlags \div 2048) % 16
        /\ header.AuthoritativeAnswer = Bit(WireFlags, 10)
        /\ header.TruncatedMessage = Bit(WireFlags, 9)
        /\ header.RecursionDesired = Bit(WireFlags, 8)
        /\ header.RecursionAvailable = Bit(WireFlags, 7)
        /\ header.Z = Bit(WireFlags, 6)
        /\ header.AuthedData = Bit(WireFlags, 5)
        /\ header.CheckingDisabled = Bit(WireFlags, 4)
        /\ header.ResCode = IF WireFlags % 16 \in 1..5 THEN WireFlags % 16 ELSE 0

\* The header of a message with flag word 0x8180 has been decoded.
C7_StandardResponse ==
    pc # "header" /\ WireFlags = 33152 /\ header.Response /\ header.RecursionDesired
        /\ header.RecursionAvailable /\ header.Opcode = 0 /\ header.ResCode = 0

\* C8: when a message shorter than 512 bytes declares 2 questions and holds
\* 1, the read of the second question fails with the end-of-buffer error.
C8_ShortQuestionSection ==
    (msg.len < BufSize /\ msg.declared = 2 /\ msg.encoded = 1 /\ question.n = 2) =>
        question.st = "err"

\* The second question of such a message has been read.
C8_SecondQuestionRead ==
    msg.len < BufSize /\ msg.declared = 2 /\ msg.encoded = 1 /\ question.n = 2

\* C9: a record whose type is not A, AAAA, CNAME or MX, once its prefix is
\* read, is returned with no further byte consumed (the cursor at its first
\* rdata byte), the raw type in Qtype, and Addr, Host and Priority default.
C9_UnknownTypeConsumesNothing ==
    (record.st # "none" /\ record.prefix /\ record.rawType \notin {1, 28, 5, 15}) =>
        /\ record.st = "ok"
        /\ pos = record.rdata
        /\ record.val.Qtype = record.rawType
        /\ record.val.Addr = <<>>
        /\ record.val.Host = <<>>
        /\ record.val.Priority = 0

\* An NS record with rdata has been returned.
C9_NsRecordReturned ==
    record.st = "ok" /\ record.rawType = 2 /\ record.val.DataLen > 0

====
